---- MODULE Spec2Model ----
(***************************************************************************)
(* Model of GopherAI-Resume.  The chat pipeline: ChatService.SendMessage,   *)
(* StreamMessage, GetHistory and DeleteSession over the Redis history cache *)
(* and its dirty marker, the RabbitMQ publisher, the MessagePersistWorker   *)
(* and the application's Close.  One conversation (session 1, owned by user *)
(* 1) is modelled; every network call of a handler is one step of its       *)
(* process.  SendMessage and StreamMessage make the same calls in the same  *)
(* order around the gateway call.  The RAG service: its calls by two users  *)
(* over the session, document and chunk tables, and chunkText.              *)
(***************************************************************************)
EXTENDS Integers, Sequences, FiniteSets, TLC

\* ---------------------------------------------------------------- bounds
MaxCalls == 2
MaxChatCalls == 1
MaxGets == 2
MaxForeign == 1
MaxRestarts == 1
MaxHistoryGets == 3
MaxPersisted == 3
MaxStreamCalls == 1
MaxChunks == 2
MaxDeleteCalls == 1
MaxDeleteGets == 1
MaxRagSessions == 2
MaxDocs == 2
MaxLen == 25
MaxSize == 10
MaxIngestChunks == 11
MaxIngestDocs == 1
MaxCandidates == 6
MaxScore == 3
MaxDim == 2
maxContext == 2
MaxStarts == 2
MaxCloses == 1
MaxValue == 1

\* ------------------------------------------------------ program constants
ListDefaultLimit == 100
ListMaxLimit == 200
ListRecentDefault == 20
defaultChunkSize == 512
embeddingBatchSize == 10
defaultTopK == 5

Max(a, b) == IF a >= b THEN a ELSE b

Calls == 1..Max(Max(MaxCalls, MaxChatCalls), Max(MaxStreamCalls, MaxDeleteCalls))
Gets == 1..Max(Max(MaxGets, MaxHistoryGets), MaxDeleteGets)

None == [none |-> TRUE]

VARIABLES
    dirty,      \* the dirty marker key exists in Redis
    cache,      \* the history key: None or the cached entry
    markedBy,   \* calls whose MarkDirty set the marker that is still present
    armed,      \* calls of markedBy that have also deleted the cache entry
    queue,      \* the broker's queue: payloads not yet settled, oldest first
    inflight,   \* deliveries handed to the consumer and not yet settled
    store,      \* rows of the messages table, in insertion order
    clock,      \* time.Now
    snd,        \* the SendMessage / StreamMessage calls
    get,        \* the GetHistory calls
    w,          \* the MessagePersistWorker and its goroutine
    app,        \* the process: bootstrap.New, serving, App.Close (mid: Close was
                \* called while a delivery was unsettled)
    env,        \* counters of what the environment did
    sessions,   \* rows of the sessions table
    del,        \* the DeleteSession call
    rag,        \* the RAG tables and what the last RAGService call did
    chk,        \* a call of chunkText: its arguments and its result
    ing,        \* a call of RAGService.Ingest, step by step
    rank,       \* a call of topKScored: its arguments and its result
    cos         \* a call of cosineSimilarity: its arguments and its result

vars == <<dirty, cache, markedBy, armed, queue, inflight, store, clock, snd, get, w, app, env, sessions, del, rag, chk, ing, rank, cos>>

\* ----------------------------------------------------------------- inputs
\* the sessions table at the start: one conversation, owned by user 1
SessionRows == {[id |-> 1, user |-> 1]}
UserIDs == {0, 1, 2}
SessionIDs == {0, 1}
Contents == {"", " ", "hi"}
Limits == {0, 2}

\* ai.ChatConfig of the deployment: the configuration leaves the API key to
\* the caller
defaultLLM == [BaseURL |-> "url", APIKey |-> "", Model |-> "model"]

\* LLMOverride of a request: nothing, a blank key, a key, all three fields
Overrides ==
    {[BaseURL |-> "", APIKey |-> "", Model |-> ""],
     [BaseURL |-> "", APIKey |-> " ", Model |-> ""],
     [BaseURL |-> "", APIKey |-> "key", Model |-> ""],
     [BaseURL |-> "url2", APIKey |-> "key", Model |-> "model2"]}

SendInputs == [user : UserIDs, session : SessionIDs, content : Contents, llm : Overrides]

\* strings.TrimSpace on the modelled contents
TrimSpace(s) == IF s = " " THEN "" ELSE s

\* SessionRepository.GetByIDAndUserID: the row with this id and this owner
GetByIDAndUserID(session, user) == [id |-> session, user |-> user] \in sessions

\* ChatService.resolveLLM: the override's fields, trimmed, over the defaults
resolveLLM(override) ==
    [f \in DOMAIN defaultLLM |->
        IF TrimSpace(override[f]) # "" THEN TrimSpace(override[f]) ELSE defaultLLM[f]]

\* cfg.BaseURL == "" || cfg.APIKey == "" || cfg.Model == ""
Incomplete(cfg) == \E f \in DOMAIN cfg : cfg[f] = ""

\* the checks SendMessage / StreamMessage make before any side effect
Validate(in) ==
    IF in.user = 0 \/ in.session = 0 THEN "InvalidInput"
    ELSE IF TrimSpace(in.content) = "" THEN "MessageEmpty"
    ELSE IF ~GetByIDAndUserID(in.session, in.user) THEN "SessionNotFound"
    ELSE IF Incomplete(resolveLLM(in.llm)) THEN "LLMConfig"
    ELSE "ok"

\* the checks GetHistory makes before it touches the cache
ValidateGet(user, session) ==
    IF user = 0 \/ session = 0 THEN "InvalidInput"
    ELSE IF ~GetByIDAndUserID(session, user) THEN "SessionNotFound"
    ELSE "ok"

\* --------------------------------------------------------------- messages
\* model.Message: the call that built it stands for its content
Message(c, role, t) == [call |-> c, role |-> role, created |-> t]

\* rows of the conversation that earlier runs of the process left in the
\* messages table: user and assistant messages in turn, created at 1, 2, ...
Persisted ==
    [i \in 1..MaxPersisted |->
        Message(0, IF i % 2 = 1 THEN "user" ELSE "assistant", i)]

\* json.Marshal / json.Unmarshal of a queue payload
Marshal(m) == [fmt |-> "json", body |-> m]
Garbage == [fmt |-> "raw", body |-> Message(0, "", 0)]
Unmarshal(p) == [ok |-> p.fmt = "json", msg |-> p.body]

\* ------------------------------------------------------------ the store
RECURSIVE InsertByCreated(_, _)
InsertByCreated(sorted, m) ==
    IF sorted = <<>> THEN <<m>>
    ELSE IF sorted[Len(sorted)].created <= m.created THEN Append(sorted, m)
    ELSE Append(InsertByCreated(SubSeq(sorted, 1, Len(sorted) - 1), m),
                sorted[Len(sorted)])

RECURSIVE OrderByCreatedAsc(_)
OrderByCreatedAsc(rows) ==
    IF rows = <<>> THEN <<>>
    ELSE InsertByCreated(OrderByCreatedAsc(SubSeq(rows, 1, Len(rows) - 1)),
                         rows[Len(rows)])

Min(a, b) == IF a <= b THEN a ELSE b

\* MessageRepository.ListBySessionID: ORDER BY created_at ASC LIMIT limit
ListBySessionID(rows, limit) ==
    LET lim == IF limit <= 0 \/ limit > ListMaxLimit THEN ListDefaultLimit ELSE limit
        asc == OrderByCreatedAsc(rows)
    IN SubSeq(asc, 1, Min(lim, Len(asc)))

\* the recent rows without slices.Reverse: newest first
ListRecentBySessionID_NotReversed(rows, limit) ==
    LET lim == IF limit <= 0 \/ limit > ListMaxLimit THEN ListRecentDefault ELSE limit
        asc == OrderByCreatedAsc(rows)
        n == Min(lim, Len(asc))
    IN [i \in 1..n |-> asc[Len(asc) - i + 1]]

\* MessageRepository.ListRecentBySessionID: ORDER BY created_at DESC LIMIT
\* limit, reversed
ListRecentBySessionID(rows, limit) ==
    LET lim == IF limit <= 0 \/ limit > ListMaxLimit THEN ListRecentDefault ELSE limit
        asc == OrderByCreatedAsc(rows)
        n == Min(lim, Len(asc))
    IN SubSeq(asc, Len(asc) - n + 1, Len(asc))

\* the system message every prompt starts with
SystemMessage == Message(0, "system", 0)

\* ChatService.buildPromptMessages: the system message, the recent rows of the
\* messages table, the current input
buildPromptMessages(rows, userMessage) ==
    <<SystemMessage>> \o ListRecentBySessionID(rows, maxContext) \o <<userMessage>>

\* trimMessages
trimMessages(messages, limit) ==
    IF limit <= 0 \/ limit >= Len(messages) THEN messages
    ELSE SubSeq(messages, Len(messages) - limit + 1, Len(messages))


\* ------------------------------------------------------------ process state
RedisOpen == app.pc \in {"new", "serving"}
MQOpen == app.pc \notin {"mqClosed", "closed"}
DBOpen == app.pc # "closed"
Serving == app.pc = "serving"

\* outcomes a call to Redis, to the broker, to MySQL or to the gateway can have
CacheOutcomes == IF RedisOpen THEN {TRUE, FALSE} ELSE {FALSE}
BrokerOutcomes == IF MQOpen THEN {TRUE, FALSE} ELSE {FALSE}
StoreOutcomes == IF DBOpen THEN {TRUE, FALSE} ELSE {FALSE}

\* bookkeeping of the calls that hold a store snapshot not yet written back:
\* the marker was set after the read, and that marker then expired
NoteMark(gs) ==
    [g \in Gets |-> IF gs[g].pc \in {"isdirty2", "set"} /\ gs[g].rd = "read"
                    THEN [gs[g] EXCEPT !.rd = "marked"] ELSE gs[g]]

NoteExpire(gs) ==
    [g \in Gets |-> IF gs[g].pc \in {"isdirty2", "set"} /\ gs[g].rd = "marked"
                    THEN [gs[g] EXCEPT !.rd = "expired"] ELSE gs[g]]

\* ------------------------------------------- SendMessage / StreamMessage
\* SendMessage that publishes the user message before it invalidates the cache
SendSteps_PublishFirst ==
    <<"PublishUser", "MarkDirty", "DeleteHistory", "Complete", "PublishAssistant">>

\* the side-effecting calls of SendMessage, in the order the code makes them
SendSteps == <<"MarkDirty", "DeleteHistory", "PublishUser", "Complete", "PublishAssistant">>

SendDone == Len(SendSteps) + 1

SendOp(c) ==
    IF snd[c].idx \in 1..Len(SendSteps) THEN SendSteps[snd[c].idx] ELSE "none"

\* gw: what the gateway call returned; out: the messages of the result the
\* call returns to its caller; kind: SendMessage or StreamMessage; of a
\* StreamMessage call: got, the chunks received and handed to onChunk;
\* cancelled, its ctx is cancelled; cut, what ended the stream early
IdleSend == [idx |-> 0, res |-> "none", trace |-> <<>>, upub |-> "none",
             user |-> None, asst |-> None, gw |-> "none", out |-> <<>>,
             kind |-> "send", got |-> 0, cancelled |-> FALSE, cut |-> "none",
             prompt |-> <<>>]

\* a step that succeeded (or whose error the code discards): go on; the prompt
\* is done with once the gateway has answered
Advance(s, op) ==
    [s EXCEPT !.idx = @ + 1, !.trace = Append(@, op),
              !.prompt = IF op = "Complete" THEN <<>> ELSE @]

\* a step whose error ends the call
Fail(s, op, err) ==
    [s EXCEPT !.idx = SendDone, !.trace = Append(@, op), !.res = err, !.prompt = <<>>]

\* a call that goes on to MarkDirty although validation failed
Rejected_GoesOn(s, err) == [s EXCEPT !.idx = 1, !.res = err]

\* return nil, err before the user message is built (lines 146-170)
Rejected(s, err) == [s EXCEPT !.idx = SendDone, !.res = err]

\* SendMessage that goes on to the gateway after a failed publish
PublishUserFailed_GoesOn(s) == Advance(s, "PublishUser")

\* publisher.Publish(userMessage) returned an error
PublishUserFailed(s) == Fail(s, "PublishUser", "EnqueueFailed")

\* SendMessage that takes a failed completion for an empty answer and goes on
CompleteFailed_GoesOn(s) ==
    [Advance(s, "Complete") EXCEPT
        !.asst = Message(s.user.call, "assistant", s.user.created)]

\* llmClient.Complete / StreamComplete returned an error: return it
CompleteFailed(s) == Fail(s, "Complete", "GatewayError")

\* validation, resolve, build the user message (lines 146-178 / 260-291)
SendBegin(c) ==
    /\ Serving
    /\ snd[c].idx = 0 /\ snd[c].res = "none"
    /\ \A d \in Calls : d < c => snd[d].idx # 0 \/ snd[d].res # "none"
    /\ \E in \in SendInputs, ok \in StoreOutcomes :
         LET v == IF Validate(in) = "ok" /\ ~ok THEN "StoreError" ELSE Validate(in) IN
         IF v # "ok"
         THEN /\ snd' = [snd EXCEPT ![c] = Rejected(@, v)]
              /\ clock' = clock
         ELSE /\ snd' = [snd EXCEPT ![c] =
                   [@ EXCEPT !.idx = 1, !.user = Message(c, "user", clock),
                             !.prompt = buildPromptMessages(store,
                                                            Message(c, "user", clock))]]
              /\ clock' = clock + 1
    /\ UNCHANGED <<dirty, cache, markedBy, armed, queue, inflight, store, get, w, app, env, sessions, del, rag, chk, ing, rank, cos>>

\* historyCache.MarkDirty, error discarded
SendMarkDirty(c) ==
    /\ SendOp(c) = "MarkDirty"
    /\ \E ok \in CacheOutcomes :
         /\ dirty' = (dirty \/ ok)
         /\ markedBy' = IF ok THEN markedBy \cup {c} ELSE markedBy
         /\ get' = IF ok THEN NoteMark(get) ELSE get
    /\ snd' = [snd EXCEPT ![c] = Advance(@, "MarkDirty")]
    /\ UNCHANGED <<cache, armed, queue, inflight, store, clock, w, app, env, sessions, del, rag, chk, ing, rank, cos>>

\* historyCache.DeleteHistory, error discarded
SendDeleteHistory(c) ==
    /\ SendOp(c) = "DeleteHistory"
    /\ \E ok \in CacheOutcomes :
         /\ cache' = IF ok THEN None ELSE cache
         /\ armed' = IF ok /\ c \in markedBy THEN armed \cup {c} ELSE armed
    /\ snd' = [snd EXCEPT ![c] = Advance(@, "DeleteHistory")]
    /\ UNCHANGED <<dirty, markedBy, queue, inflight, store, clock, get, w, app, env, sessions, del, rag, chk, ing, rank, cos>>

\* publisher.Publish(userMessage)
SendPublishUser(c) ==
    /\ SendOp(c) = "PublishUser"
    /\ \E ok \in BrokerOutcomes :
         IF ok
         THEN /\ queue' = Append(queue, Marshal(snd[c].user))
              /\ snd' = [snd EXCEPT ![c] = [Advance(@, "PublishUser") EXCEPT !.upub = "ok"]]
         ELSE /\ queue' = queue
              /\ snd' = [snd EXCEPT ![c] = [PublishUserFailed(@) EXCEPT !.upub = "failed"]]
    /\ UNCHANGED <<dirty, cache, markedBy, armed, inflight, store, clock, get, w, app, env, sessions, del, rag, chk, ing, rank, cos>>

\* llmClient.Complete, then the assistant message is built
SendComplete(c) ==
    /\ SendOp(c) = "Complete" /\ snd[c].kind = "send"
    /\ \E ok \in BOOLEAN :
         IF ok
         THEN /\ snd' = [snd EXCEPT ![c] =
                           [Advance(@, "Complete") EXCEPT !.asst = Message(c, "assistant", clock),
                                                          !.gw = "ok"]]
              /\ clock' = clock + 1
         ELSE /\ snd' = [snd EXCEPT ![c] = [CompleteFailed(@) EXCEPT !.gw = "failed"]]
              /\ clock' = clock
    /\ UNCHANGED <<dirty, cache, markedBy, armed, queue, inflight, store, get, w, app, env, sessions, del, rag, chk, ing, rank, cos>>

\* publisher.Publish(assistantMessage)
SendPublishAssistant(c) ==
    /\ SendOp(c) = "PublishAssistant"
    /\ \E ok \in BrokerOutcomes :
         IF ok
         THEN /\ queue' = Append(queue, Marshal(snd[c].asst))
              /\ snd' = [snd EXCEPT ![c] = [Advance(@, "PublishAssistant") EXCEPT
                                                !.res = "ok",
                                                !.out = <<snd[c].user, snd[c].asst>>]]
         ELSE /\ queue' = queue
              /\ snd' = [snd EXCEPT ![c] = Fail(@, "PublishAssistant", "EnqueueFailed")]
    /\ UNCHANGED <<dirty, cache, markedBy, armed, inflight, store, clock, get, w, app, env, sessions, del, rag, chk, ing, rank, cos>>

\* ---------------------------------------------------------- StreamMessage
\* validation, resolve, build the user message (lines 260-291)
StreamBegin(c) ==
    /\ Serving
    /\ snd[c].idx = 0 /\ snd[c].res = "none"
    /\ \A d \in Calls : d < c => snd[d].idx # 0 \/ snd[d].res # "none"
    /\ \E in \in SendInputs, ok \in StoreOutcomes :
         LET v == IF Validate(in) = "ok" /\ ~ok THEN "StoreError" ELSE Validate(in) IN
         IF v # "ok"
         THEN /\ snd' = [snd EXCEPT ![c] = [Rejected(@, v) EXCEPT !.kind = "stream"]]
              /\ clock' = clock
         ELSE /\ snd' = [snd EXCEPT ![c] =
                   [@ EXCEPT !.idx = 1, !.kind = "stream",
                             !.user = Message(c, "user", clock),
                             !.prompt = buildPromptMessages(store,
                                                            Message(c, "user", clock))]]
              /\ clock' = clock + 1
    /\ UNCHANGED <<dirty, cache, markedBy, armed, queue, inflight, store, get, w, app, env, sessions, del, rag, chk, ing, rank, cos>>

\* the caller cancels the request's context (the client went away)
StreamCancel(c) ==
    /\ snd[c].kind = "stream" /\ snd[c].idx \in 1..Len(SendSteps)
    /\ ~snd[c].cancelled
    /\ snd' = [snd EXCEPT ![c] = [@ EXCEPT !.cancelled = TRUE]]
    /\ UNCHANGED <<dirty, cache, markedBy, armed, queue, inflight, store, clock, get, w, app, env, sessions, del, rag, chk, ing, rank, cos>>

\* StreamComplete returned an error after onChunk or the read of the body failed
StreamCut(s, why) ==
    [Fail(s, "Complete", IF why = "sink" THEN "SinkError" ELSE "GatewayError")
        EXCEPT !.cut = why, !.gw = "failed"]

\* StreamComplete: a chunk is read, appended to full and handed to onChunk,
\* whose error ends the call (openai_compatible.go 151-159)
StreamChunk(c) ==
    /\ snd[c].kind = "stream" /\ SendOp(c) = "Complete"
    /\ snd[c].got < MaxChunks
    /\ \E sinkOk \in BOOLEAN :
         snd' = [snd EXCEPT ![c] =
                   IF sinkOk THEN [@ EXCEPT !.got = @ + 1]
                   ELSE StreamCut([@ EXCEPT !.got = @ + 1], "sink")]
    /\ UNCHANGED <<dirty, cache, markedBy, armed, queue, inflight, store, clock, get, w, app, env, sessions, del, rag, chk, ing, rank, cos>>

\* StreamComplete: the read of the response fails because ctx is cancelled
\* (openai_compatible.go 110-113, 161-163)
StreamAbort(c) ==
    /\ snd[c].kind = "stream" /\ SendOp(c) = "Complete"
    /\ snd[c].cancelled
    /\ snd' = [snd EXCEPT ![c] = StreamCut(@, "ctx")]
    /\ UNCHANGED <<dirty, cache, markedBy, armed, queue, inflight, store, clock, get, w, app, env, sessions, del, rag, chk, ing, rank, cos>>

\* StreamComplete returns: the stream ended with [DONE] and the assistant
\* message is built from full, or the gateway failed
StreamEnd(c) ==
    /\ snd[c].kind = "stream" /\ SendOp(c) = "Complete"
    /\ \E ok \in BOOLEAN :
         IF ok
         THEN /\ snd' = [snd EXCEPT ![c] =
                           [Advance(@, "Complete") EXCEPT !.asst = Message(c, "assistant", clock),
                                                          !.gw = "ok"]]
              /\ clock' = clock + 1
         ELSE /\ snd' = [snd EXCEPT ![c] = [CompleteFailed(@) EXCEPT !.gw = "failed"]]
              /\ clock' = clock
    /\ UNCHANGED <<dirty, cache, markedBy, armed, queue, inflight, store, get, w, app, env, sessions, del, rag, chk, ing, rank, cos>>

\* ----------------------------------------------------------- DeleteSession
IdleDel == [pc |-> "idle", res |-> "none", user |-> 0, session |-> 0]

\* validation and the session lookup (lines 123-132)
DelBegin ==
    /\ Serving
    /\ del.pc = "idle"
    /\ \E u \in UserIDs, sid \in SessionIDs :
         LET v == ValidateGet(u, sid) IN
         del' = IF v # "ok" THEN [del EXCEPT !.pc = "done", !.res = v]
                ELSE [del EXCEPT !.pc = "messages", !.user = u, !.session = sid]
    /\ UNCHANGED <<dirty, cache, markedBy, armed, queue, inflight, store, clock, snd, get, w, app, env, sessions, rag, chk, ing, rank, cos>>

\* messageRepo.DeleteBySessionID: every row of the conversation (lines 133-135)
DelMessages ==
    /\ del.pc = "messages"
    /\ \E ok \in StoreOutcomes :
         IF ok THEN /\ store' = <<>>
                    /\ del' = [del EXCEPT !.pc = "session"]
         ELSE /\ store' = store
              /\ del' = [del EXCEPT !.pc = "done", !.res = "StoreError"]
    /\ UNCHANGED <<dirty, cache, markedBy, armed, queue, inflight, clock, snd, get, w, app, env, sessions, rag, chk, ing, rank, cos>>

\* sessionRepo.DeleteByIDAndUserID (lines 136-138)
DelSessionRow ==
    /\ del.pc = "session"
    /\ \E ok \in StoreOutcomes :
         IF ok THEN /\ sessions' = sessions \ {[id |-> del.session, user |-> del.user]}
                    /\ del' = [del EXCEPT !.pc = "cache"]
         ELSE /\ sessions' = sessions
              /\ del' = [del EXCEPT !.pc = "done", !.res = "StoreError"]
    /\ UNCHANGED <<dirty, cache, markedBy, armed, queue, inflight, store, clock, snd, get, w, app, env, rag, chk, ing, rank, cos>>

\* historyCache.DeleteHistory, error discarded, then return nil (lines 139-142)
DelCache ==
    /\ del.pc = "cache"
    /\ \E ok \in CacheOutcomes : cache' = IF ok THEN None ELSE cache
    /\ del' = [del EXCEPT !.pc = "done", !.res = "ok"]
    /\ UNCHANGED <<dirty, markedBy, armed, queue, inflight, store, clock, snd, get, w, app, env, sessions, rag, chk, ing, rank, cos>>

\* ---------------------------------------------------------------- chunkText
IdleChunk == [text |-> <<>>, size |-> 0, overlap |-> 0, out |-> <<>>, done |-> FALSE]

\* codepoint sequences: every position a different codepoint, or all the same
Texts ==
    UNION {{[i \in 1..n |-> i], [i \in 1..n |-> 1]} : n \in 0..MaxLen}

ChunkInputs ==
    [text : Texts, size : 0..MaxSize, overlap : 0..MaxSize, out : {<<>>}, done : {FALSE}]

\* a loop that advances by the whole window
NextStart_NoOverlap(i, size, overlap) == i + size

\* i += size - overlap
NextStart(i, size, overlap) == i + size - overlap

\* the loop of chunkText from start i (0-based) with the chunks made so far
RECURSIVE ChunkLoop(_, _, _, _, _)
ChunkLoop(runes, size, overlap, i, chunks) ==
    IF ~(i < Len(runes)) THEN chunks
    ELSE LET end == IF i + size > Len(runes) THEN Len(runes) ELSE i + size
             more == Append(chunks, SubSeq(runes, i + 1, end))
             next == NextStart(i, size, overlap)
         IN IF next >= Len(runes) THEN more
            ELSE ChunkLoop(runes, size, overlap, next, more)

\* chunkText
chunkText(text, size, overlap) ==
    LET sz == IF size <= 0 THEN defaultChunkSize ELSE size
        ov == IF overlap >= sz THEN sz \div 2 ELSE overlap
    IN ChunkLoop(text, sz, ov, 0, <<>>)

\* a call of chunkText returns
ChunkApply ==
    /\ ~chk.done
    /\ chk' = [chk EXCEPT !.out = chunkText(chk.text, chk.size, chk.overlap),
                          !.done = TRUE]
    /\ UNCHANGED <<dirty, cache, markedBy, armed, queue, inflight, store, clock, snd, get, w, app, env, sessions, del, rag, ing, rank, cos>>

\* -------------------------------------------------------------- RAGService
RagUsers == {1, 2}

\* rag_sessions, rag_documents and rag_chunks rows; a chunk row carries the id
\* of its document (and, for the record, the user whose Ingest wrote it); last: the caller of the latest call, the rows it deleted
\* and the chunks its Ask scored
NoCall == [op |-> "none", user |-> 0, res |-> "none", docs |-> {}, chunks |-> {},
           scored |-> {}, selected |-> {}, scope |-> {}, embed |-> FALSE,
           complete |-> FALSE]

EmptyRag == [sessions |-> {}, docs |-> {}, chunks |-> {}, nextSession |-> 1,
             nextDoc |-> 1, last |-> NoCall]

\* RAGSessionRepository.GetByIDAndUserID
RagSessionOf(id, user) == {x \in rag.sessions : x.id = id /\ x.user = user}

\* RAGDocumentRepository.GetByIDAndUserID
RagDocOf(id, user) == {d \in rag.docs : d.id = id /\ d.user = user}

\* RAGDocumentRepository.ListBySessionID: WHERE session_id = ?
DocIDsBySession(sid) == {d.id : d \in {x \in rag.docs : x.session = sid}}

\* RAGDocumentRepository.ListByUserIDAndSessionID
DocsByUserAndSession(user, sid) ==
    {d \in rag.docs : d.user = user /\ (sid # 0 => d.session = sid)}

\* RAGChunkRepository.ListByDocumentIDs: WHERE document_id IN ?
ChunksOfDocs(ids) == {k \in rag.chunks : k.doc \in ids}

\* RAGService.CreateSession
RagCreateSession ==
    /\ Serving
    /\ rag.nextSession <= MaxRagSessions
    /\ \E u \in RagUsers :
         rag' = [rag EXCEPT !.sessions = @ \cup {[id |-> rag.nextSession, user |-> u]},
                            !.nextSession = @ + 1,
                            !.last = [NoCall EXCEPT !.op = "CreateSession", !.user = u,
                                                    !.res = "ok"]]
    /\ UNCHANGED <<dirty, cache, markedBy, armed, queue, inflight, store, clock, snd, get, w, app, env, sessions, del, chk, ing, rank, cos>>

\* RAGService.Ingest: the document row, then the embeddings, then the chunk rows
RagIngest ==
    /\ Serving
    /\ rag.nextDoc <= MaxDocs
    /\ \E u \in RagUsers, sid \in 0..MaxRagSessions, content \in Contents,
          embedOk \in BOOLEAN :
         LET call == [NoCall EXCEPT !.op = "Ingest", !.user = u]
             doc == [id |-> rag.nextDoc, user |-> u, session |-> sid]
         IN IF TrimSpace(content) = ""
            THEN rag' = [rag EXCEPT !.last = [call EXCEPT !.res = "InvalidInput"]]
            ELSE IF ~embedOk
            THEN rag' = [rag EXCEPT !.docs = @ \cup {doc}, !.nextDoc = @ + 1,
                                    !.last = [call EXCEPT !.res = "EmbedError"]]
            ELSE rag' = [rag EXCEPT !.docs = @ \cup {doc}, !.nextDoc = @ + 1,
                                    !.chunks = @ \cup {[doc |-> doc.id, owner |-> u]},
                                    !.last = [call EXCEPT !.res = "ok"]]
    /\ UNCHANGED <<dirty, cache, markedBy, armed, queue, inflight, store, clock, snd, get, w, app, env, sessions, del, chk, ing, rank, cos>>

\* the document ids Ask searches (lines 236-265): the explicit ids that are
\* the caller's, else the caller's documents of the session, else all of them
AskScope(u, sid, ids) ==
    IF ids # {} THEN {id \in ids : RagDocOf(id, u) # {}}
    ELSE {d.id : d \in DocsByUserAndSession(u, sid)}

\* Ask without the test of len(allChunks)
AskGuard_NoChunkTest(scope, all) ==
    IF scope = {} THEN "NoDocuments" ELSE "go"

\* the early returns of Ask before the gateway is called (lines 256-273)
AskGuard(scope, all) ==
    IF scope = {} THEN "NoDocuments"
    ELSE IF all = {} THEN "NoChunks"
    ELSE "go"

\* the first call of Ask that fails, if any: the store, llmClient.Embed,
\* llmClient.Complete
AskOutcomes == {"ok", "StoreError", "EmbedError", "CompleteError"}

\* RAGService.Ask: the scope, the chunks, llmClient.Embed, the ranking,
\* llmClient.Complete; embed and complete tell which gateway was called
RagAsk ==
    /\ Serving
    /\ \E u \in RagUsers, sid \in 0..MaxRagSessions, ids \in SUBSET (1..MaxDocs),
          outcome \in AskOutcomes :
         LET scope == AskScope(u, sid, ids)
             call == [NoCall EXCEPT !.op = "Ask", !.user = u, !.scope = scope]
             all == ChunksOfDocs(scope)
         IN IF outcome = "StoreError"
            THEN rag' = [rag EXCEPT !.last = [call EXCEPT !.res = "StoreError"]]
            ELSE IF AskGuard(scope, all) # "go"
            THEN rag' = [rag EXCEPT !.last = [call EXCEPT !.res = AskGuard(scope, all)]]
            ELSE IF outcome = "EmbedError"
            THEN rag' = [rag EXCEPT !.last = [call EXCEPT !.res = "EmbedError",
                                                          !.embed = TRUE]]
            ELSE \E top \in SUBSET all :
                   /\ top # {} \/ all = {}
                   /\ rag' = [rag EXCEPT !.last =
                         IF outcome = "ok"
                         THEN [call EXCEPT !.res = "ok", !.scored = all, !.selected = top,
                                           !.embed = TRUE, !.complete = TRUE]
                         ELSE [call EXCEPT !.res = "CompleteError", !.embed = TRUE,
                                           !.complete = TRUE]]
    /\ UNCHANGED <<dirty, cache, markedBy, armed, queue, inflight, store, clock, snd, get, w, app, env, sessions, del, chk, ing, rank, cos>>

\* RAGService.DeleteDocument
RagDeleteDocument ==
    /\ Serving
    /\ \E u \in RagUsers, id \in 1..MaxDocs :
         LET call == [NoCall EXCEPT !.op = "DeleteDocument", !.user = u]
             gone == ChunksOfDocs({id})
         IN IF RagDocOf(id, u) = {}
            THEN rag' = [rag EXCEPT !.last = [call EXCEPT !.res = "InvalidInput"]]
            ELSE rag' = [rag EXCEPT !.chunks = @ \ gone, !.docs = @ \ RagDocOf(id, u),
                                    !.last = [call EXCEPT !.res = "ok", !.chunks = gone,
                                                          !.docs = RagDocOf(id, u)]]
    /\ UNCHANGED <<dirty, cache, markedBy, armed, queue, inflight, store, clock, snd, get, w, app, env, sessions, del, chk, ing, rank, cos>>

\* RAGDocumentRepository.DeleteBySessionID: WHERE session_id = ?
DocsBySession(sid) == {d \in rag.docs : d.session = sid}

\* RAGService.DeleteSession
RagDeleteSession ==
    /\ Serving
    /\ \E u \in RagUsers, sid \in 1..MaxRagSessions :
         LET call == [NoCall EXCEPT !.op = "DeleteSession", !.user = u]
             docs == DocsBySession(sid)
             gone == ChunksOfDocs(DocIDsBySession(sid))
         IN IF RagSessionOf(sid, u) = {}
            THEN rag' = [rag EXCEPT !.last = [call EXCEPT !.res = "SessionNotFound"]]
            ELSE rag' = [rag EXCEPT !.chunks = @ \ gone, !.docs = @ \ docs,
                                    !.sessions = @ \ RagSessionOf(sid, u),
                                    !.last = [call EXCEPT !.res = "ok", !.chunks = gone,
                                                          !.docs = docs]]
    /\ UNCHANGED <<dirty, cache, markedBy, armed, queue, inflight, store, clock, snd, get, w, app, env, sessions, del, chk, ing, rank, cos>>

\* ------------------------------------------------- RAGService.Ingest, stepwise
\* n: the chunks chunkText made; i: the start of the next batch; emb: the
\* embeddings gathered so far (a local, gone at return); sent, got: the sizes of the batches sent and of
\* the answers.  The embedding of chunk j is written j; 0 is an embedding that
\* belongs to none of the chunks sent.
IdleIngest == [pc |-> "idle", user |-> 0, session |-> 0, n |-> 0, doc |-> 0, i |-> 0,
               emb |-> <<>>, sent |-> <<>>, got |-> <<>>, res |-> "none"]

\* scored: the candidates in scan order, each with its place in that order and
\* its score; k: the TopK asked for; via: the caller; topK: the k topKScored
\* was called with
IdleRank == [scored |-> <<>>, k |-> 0, via |-> "none", topK |-> 0, out |-> <<>>,
             done |-> FALSE]

\* the score 0
Zero == [num |-> 0, den |-> 1, fault |-> FALSE]

\* the Embedding column of a chunk: the empty string, a text that is not JSON,
\* or a JSON array of numbers and of values of other types
EmptyText == [form |-> "empty", elems |-> <<>>]

\* queryEmb: the embedding of the question; stored: the chunk's Embedding
\* column; vec: what EmbeddingVector made of it; out: the score
IdleCos == [queryEmb |-> <<>>, stored |-> EmptyText, vec |-> <<>>, out |-> Zero,
            done |-> FALSE]

\* the numbers of chunks of the documents ingested: none, one batch, and one
\* more than a batch
IngestSizes == {0, 1, MaxIngestChunks}

\* validation, chunkText, docRepo.Create (lines 144-168)
IngestBegin ==
    /\ Serving
    /\ ing.pc \in {"idle", "done"}
    /\ rag.nextDoc <= MaxIngestDocs
    /\ \E u \in RagUsers, sid \in 0..MaxRagSessions, n \in IngestSizes,
          ok \in StoreOutcomes :
         IF n = 0
         THEN /\ ing' = [IdleIngest EXCEPT !.pc = "done", !.user = u, !.res = "InvalidInput"]
              /\ rag' = rag
         ELSE IF ~ok
         THEN /\ ing' = [IdleIngest EXCEPT !.pc = "done", !.user = u, !.res = "StoreError"]
              /\ rag' = rag
         ELSE /\ ing' = [IdleIngest EXCEPT !.pc = "embed", !.user = u, !.session = sid,
                                            !.n = n, !.doc = rag.nextDoc]
              /\ rag' = [rag EXCEPT !.docs = @ \cup {[id |-> rag.nextDoc, user |-> u,
                                                      session |-> sid]},
                                    !.nextDoc = @ + 1]
    /\ UNCHANGED <<dirty, cache, markedBy, armed, queue, inflight, store, clock, snd, get, w, app, env, sessions, del, chk, rank, cos>>

\* what the gateway answers to a batch of the chunks from..to when it returns
\* count embeddings: those of the first chunks sent, then strangers
BatchAnswer(from, to, count) ==
    [j \in 1..count |-> IF from + j - 1 <= to THEN from + j - 1 ELSE 0]

\* one turn of the batch loop: llmClient.EmbedBatch on chunks[i:end], the
\* answer appended to embeddings (lines 172-183)
IngestEmbed ==
    /\ ing.pc = "embed"
    /\ LET end == IF ing.i + embeddingBatchSize > ing.n THEN ing.n
                  ELSE ing.i + embeddingBatchSize
           len == end - ing.i
       IN \E ok \in BOOLEAN, count \in {len - 1, len, len + 1} :
            IF ~ok
            THEN ing' = [ing EXCEPT !.pc = "done", !.res = "EmbedError", !.emb = <<>>]
            ELSE ing' = [ing EXCEPT !.emb = @ \o BatchAnswer(ing.i + 1, end, count),
                                    !.sent = Append(@, len), !.got = Append(@, count),
                                    !.i = @ + embeddingBatchSize,
                                    !.pc = IF ing.i + embeddingBatchSize < ing.n
                                           THEN "embed" ELSE "check"]
    /\ UNCHANGED <<dirty, cache, markedBy, armed, queue, inflight, store, clock, snd, get, w, app, env, sessions, del, rag, chk, rank, cos>>

\* len(embeddings) != len(chunks) (line 184)
CountsMatch(g) == Len(g.emb) = g.n

\* the count check, then chunkRepo.CreateBatch of chunk i with embeddings[i]
\* (lines 184-203)
IngestCreate ==
    /\ ing.pc = "check"
    /\ \E ok \in StoreOutcomes :
         IF ~CountsMatch(ing)
         THEN /\ ing' = [ing EXCEPT !.pc = "done", !.res = "EmbeddingMismatch", !.emb = <<>>]
              /\ rag' = rag
         ELSE IF ~ok
         THEN /\ ing' = [ing EXCEPT !.pc = "done", !.res = "StoreError", !.emb = <<>>]
              /\ rag' = rag
         ELSE /\ ing' = [ing EXCEPT !.pc = "done", !.res = "ok", !.emb = <<>>]
              /\ rag' = [rag EXCEPT !.chunks = @ \cup
                            {[doc |-> ing.doc, owner |-> ing.user, idx |-> j,
                              emb |-> ing.emb[j]] : j \in 1..ing.n}]
    /\ UNCHANGED <<dirty, cache, markedBy, armed, queue, inflight, store, clock, snd, get, w, app, env, sessions, del, chk, rank, cos>>

\* ---------------------------------------------------------------- topKScored
Scores == 1..MaxScore

\* the candidate lists: candidate i of the scan has id i
RankInputs ==
    {[IdleRank EXCEPT !.scored = [i \in 1..n |-> [id |-> i, score |-> f[i]]], !.k = k] :
        <<n, f, k>> \in {x \in (0..MaxCandidates) \X [1..MaxCandidates -> Scores]
                                 \X (-1..MaxCandidates + 1) :
                           \A i \in 1..MaxCandidates : i > x[1] => x[2][i] = 1}}

\* scored[i], scored[j] = scored[j], scored[i]
Swap(s, i, j) == [s EXCEPT ![i] = s[j], ![j] = s[i]]

\* the test of the inner loop the other way round
Exchange_Ascending(sj, si) == sj.score < si.score

\* scored[j].score > scored[i].score (line 391)
Exchange(sj, si) == sj.score > si.score

\* the two loops of lines 389-395, from the turn (i, j) on; indices from 1
RECURSIVE SortLoop(_, _, _)
SortLoop(s, i, j) ==
    IF i > Len(s) THEN s
    ELSE IF j > Len(s) THEN SortLoop(s, i + 1, i + 2)
    ELSE SortLoop(IF Exchange(s[j], s[i]) THEN Swap(s, i, j) ELSE s, i, j + 1)

topKScored(scored, k) ==
    IF k <= 0 \/ Len(scored) = 0 THEN <<>>
    ELSE SubSeq(SortLoop(scored, 1, 2), 1, IF k > Len(scored) THEN Len(scored) ELSE k)

\* topK := input.TopK; if topK <= 0 { topK = defaultTopK } (lines 231-234)
AskTopK(k) == IF k <= 0 THEN defaultTopK ELSE k

\* a call of topKScored returns
RankApply ==
    /\ ~rank.done
    /\ rank' = [rank EXCEPT !.via = "topKScored", !.topK = rank.k, !.out = topKScored(rank.scored, rank.k),
                            !.done = TRUE]
    /\ UNCHANGED <<dirty, cache, markedBy, armed, queue, inflight, store, clock, snd, get, w, app, env, sessions, del, rag, chk, ing, cos>>

\* the ranking of an Ask with TopK k (lines 231-234 and 289)
AskRank ==
    /\ ~rank.done
    /\ rank' = [rank EXCEPT !.via = "Ask", !.topK = AskTopK(rank.k),
                            !.out = topKScored(rank.scored, AskTopK(rank.k)),
                            !.done = TRUE]
    /\ UNCHANGED <<dirty, cache, markedBy, armed, queue, inflight, store, clock, snd, get, w, app, env, sessions, del, rag, chk, ing, cos>>

\* ---------------------------------------- EmbeddingVector, cosineSimilarity
Values == (0 - MaxValue)..MaxValue

Vectors == UNION {[1..n -> Values] : n \in 0..MaxDim}

\* the elements of a stored JSON array: a number, or a value that is no number
Tokens == [kind : {"number"}, val : Values] \cup {[kind |-> "string", val |-> 0]}

StoredTexts ==
    {EmptyText, [form |-> "invalid", elems |-> <<>>]}
    \cup {[form |-> "array", elems |-> e] : e \in UNION {[1..n -> Tokens] : n \in 0..MaxDim}}

CosInputs ==
    {[IdleCos EXCEPT !.queryEmb = q, !.stored = t] : q \in Vectors, t \in StoredTexts}

\* RAGChunk.EmbeddingVector: nil for the empty string; json.Unmarshal into v
\* with its error dropped leaves v nil on a syntax error, and on an element
\* that is no float32 leaves that element zero and goes on
EmbeddingVector(t) ==
    IF t.form # "array" THEN <<>>
    ELSE [i \in 1..Len(t.elems) |->
            IF t.elems[i].kind = "number" THEN t.elems[i].val ELSE 0]

\* the sums of the loop of lines 352-356
RECURSIVE SumProducts(_, _, _)
SumProducts(a, b, i) ==
    IF i > Len(a) THEN 0 ELSE a[i] * b[i] + SumProducts(a, b, i + 1)

\* the negation of normA <= 0 || normB <= 0 (line 357)
NormsPositive(normA, normB) == ~(normA <= 0 \/ normB <= 0)

\* cosineSimilarity; the quotient dot / (sqrt(normA) * sqrt(normB)) is kept
\* as num / sqrt(den), and fault tells a division by zero
cosineSimilarity(a, b) ==
    IF Len(a) = 0 \/ Len(a) # Len(b) THEN Zero
    ELSE LET dot == SumProducts(a, b, 1)
             normA == SumProducts(a, a, 1)
             normB == SumProducts(b, b, 1)
         IN IF ~NormsPositive(normA, normB) THEN Zero
            ELSE [num |-> dot, den |-> normA * normB, fault |-> normA * normB = 0]

\* the scoring of one chunk in Ask (lines 284-287)
CosApply ==
    /\ ~cos.done
    /\ cos' = [cos EXCEPT !.vec = EmbeddingVector(cos.stored),
                          !.out = cosineSimilarity(cos.queryEmb,
                                                   EmbeddingVector(cos.stored)),
                          !.done = TRUE]
    /\ UNCHANGED <<dirty, cache, markedBy, armed, queue, inflight, store, clock, snd, get, w, app, env, sessions, del, rag, chk, ing, rank>>

\* ------------------------------------------------ Redis key expiry (TTL)
ExpireDirty ==
    /\ dirty
    /\ dirty' = FALSE /\ markedBy' = {} /\ armed' = {}
    /\ get' = NoteExpire(get)
    /\ UNCHANGED <<cache, queue, inflight, store, clock, snd, w, app, env, sessions, del, rag, chk, ing, rank, cos>>

ExpireHistory ==
    /\ cache # None
    /\ cache' = None
    /\ UNCHANGED <<dirty, markedBy, armed, queue, inflight, store, clock, snd, get, w, app, env, sessions, del, rag, chk, ing, rank, cos>>

\* ------------------------------------------------------------- GetHistory
Range(f) == {f[i] : i \in DOMAIN f}

\* a message published by SendMessage is in the queue and not yet in the store
Outstanding ==
    LET pending == inflight \o queue IN
    \E i \in 1..Len(pending) : pending[i].fmt = "json" /\ pending[i].body \notin Range(store)

IdleGet == [pc |-> "idle", limit |-> 0, msgs |-> <<>>, src |-> "none", res |-> "none",
            startArmed |-> FALSE, check1 |-> FALSE, rd |-> "none", during |-> FALSE,
            check2 |-> FALSE, wroteStale |-> FALSE, hitDuring |-> FALSE, hitCheck |-> FALSE,
            err1 |-> FALSE, err2 |-> FALSE]

\* the call returns: its locals are gone; its argument, its result and what the
\* result rests on stay, and so does err2 (the second IsDirty failed)
Return(gr, res) ==
    [gr EXCEPT !.pc = "done", !.res = res, !.rd = "none",
               !.during = FALSE, !.check2 = FALSE, !.err1 = FALSE]

\* GetHistory that reads the cache whenever IsDirty returned no error
AfterFirstIsDirty_IgnoreMarker(ok, isDirty) == IF ok THEN "cacheget" ELSE "list"

\* GetHistory that repopulates whenever IsDirty returned no error
AfterSecondIsDirty_IgnoreMarker(ok, isDirty) == IF ok THEN "set" ELSE "done"

\* GetHistory that takes a failed IsDirty for "not dirty"
AfterFirstIsDirty_ErrorIsClean(ok, isDirty) ==
    IF ~ok \/ ~isDirty THEN "cacheget" ELSE "list"

\* where GetHistory goes after the first IsDirty: the cache read or the store
AfterFirstIsDirty(ok, isDirty) == IF ok /\ ~isDirty THEN "cacheget" ELSE "list"

\* where GetHistory goes after the second IsDirty: SetHistory or return
AfterSecondIsDirty(ok, isDirty) == IF ok /\ ~isDirty THEN "set" ELSE "done"

\* validation and the session lookup (lines 221-231)
GetBegin(g) ==
    /\ Serving
    /\ get[g].pc = "idle"
    /\ \A h \in Gets : h < g => get[h].pc # "idle"
    /\ \E u \in UserIDs, sid \in SessionIDs, l \in Limits :
         LET v == ValidateGet(u, sid) IN
         get' = [get EXCEPT ![g] =
                   IF v # "ok" THEN Return(@, v)
                   ELSE [@ EXCEPT !.pc = "isdirty1", !.limit = l,
                                  !.startArmed = (armed # {})]]
    /\ UNCHANGED <<dirty, cache, markedBy, armed, queue, inflight, store, clock, snd, w, app, env, sessions, del, rag, chk, ing, rank, cos>>

\* historyCache.IsDirty before the cache read (line 235)
GetIsDirty1(g) ==
    /\ get[g].pc = "isdirty1"
    /\ \E ok \in CacheOutcomes :
         get' = [get EXCEPT ![g] = [@ EXCEPT !.pc = AfterFirstIsDirty(ok, dirty),
                                             !.check1 = dirty, !.err1 = ~ok]]
    /\ UNCHANGED <<dirty, cache, markedBy, armed, queue, inflight, store, clock, snd, w, app, env, sessions, del, rag, chk, ing, rank, cos>>

\* historyCache.GetHistory: a hit is returned through trimMessages (lines 237-239)
GetCacheGet(g) ==
    /\ get[g].pc = "cacheget"
    /\ \E ok \in CacheOutcomes :
         get' = [get EXCEPT ![g] =
                   IF ok /\ cache # None
                   THEN Return([@ EXCEPT !.src = "cache",
                                         !.msgs = trimMessages(cache.msgs, get[g].limit),
                                         !.hitDuring = cache.during,
                                         !.hitCheck = cache.check2], "ok")
                   ELSE [@ EXCEPT !.pc = "list"]]
    /\ UNCHANGED <<dirty, cache, markedBy, armed, queue, inflight, store, clock, snd, w, app, env, sessions, del, rag, chk, ing, rank, cos>>

\* messageRepo.ListBySessionID (lines 243-246)
GetList(g) ==
    /\ get[g].pc = "list"
    /\ \E ok \in StoreOutcomes :
         get' = [get EXCEPT ![g] =
                   IF ok
                   THEN [@ EXCEPT !.pc = "isdirty2", !.src = "store",
                                  !.msgs = ListBySessionID(store, get[g].limit),
                                  !.rd = "read", !.during = Outstanding, !.err1 = FALSE]
                   ELSE Return(@, "StoreError")]
    /\ UNCHANGED <<dirty, cache, markedBy, armed, queue, inflight, store, clock, snd, w, app, env, sessions, del, rag, chk, ing, rank, cos>>

\* historyCache.IsDirty after the store read (line 248)
GetIsDirty2(g) ==
    /\ get[g].pc = "isdirty2"
    /\ \E ok \in CacheOutcomes :
         LET next == AfterSecondIsDirty(ok, dirty) IN
         get' = [get EXCEPT ![g] = IF next = "done"
                                   THEN Return([@ EXCEPT !.err2 = ~ok], "ok")
                                   ELSE [@ EXCEPT !.pc = next, !.check2 = dirty]]
    /\ UNCHANGED <<dirty, cache, markedBy, armed, queue, inflight, store, clock, snd, w, app, env, sessions, del, rag, chk, ing, rank, cos>>

\* historyCache.SetHistory, error discarded, then return (lines 249-252)
GetSet(g) ==
    /\ get[g].pc = "set"
    /\ \E ok \in CacheOutcomes :
         /\ cache' = IF ok THEN [msgs |-> get[g].msgs, during |-> get[g].during,
                                 check2 |-> get[g].check2]
                     ELSE cache
         /\ get' = [get EXCEPT ![g] =
                      Return([@ EXCEPT !.wroteStale = ok /\ get[g].rd = "expired"], "ok")]
    /\ UNCHANGED <<dirty, markedBy, armed, queue, inflight, store, clock, snd, w, app, env, sessions, del, rag, chk, ing, rank, cos>>


\* --------------------------------------------------- MessagePersistWorker
FreshWorker == [cancel |-> FALSE, ctxDone |-> FALSE, wg |-> 0, pc |-> "none",
                msg |-> None, have |-> FALSE, decodeOk |-> FALSE, wrote |-> FALSE,
                writeOk |-> FALSE, settles |-> 0, how |-> "none", requeued |-> FALSE,
                startRes |-> "none", startOps |-> <<>>, loops |-> 0, nacked |-> FALSE,
                closing |-> FALSE]

StartOutcomes == IF MQOpen THEN {"ok", "channel", "declare", "consume"} ELSE {"channel"}

\* the broker calls Start makes up to and including the one that fails
StartCalls(outcome) ==
    CASE outcome = "channel" -> <<"Channel">>
      [] outcome = "declare" -> <<"Channel", "QueueDeclare", "ch.Close">>
      [] outcome = "consume" -> <<"Channel", "QueueDeclare", "Consume", "ch.Close">>
      [] OTHER -> <<"Channel", "QueueDeclare", "Consume">>

\* Start that falls through to the consumer loop after a failed broker call
Start_NoReturnOnError(wr, outcome) ==
    IF wr.cancel THEN [wr EXCEPT !.startRes = "nil", !.startOps = <<>>, !.loops = 0]
    ELSE [wr EXCEPT !.cancel = TRUE, !.ctxDone = (outcome # "ok"),
                    !.startRes = IF outcome # "ok" THEN "error" ELSE "nil",
                    !.startOps = StartCalls(outcome), !.loops = 1,
                    !.wg = @ + 1, !.pc = "select"]

\* MessagePersistWorker.Start
Start(wr, outcome) ==
    IF wr.cancel THEN [wr EXCEPT !.startRes = "nil", !.startOps = <<>>, !.loops = 0]
    ELSE IF outcome # "ok"
    THEN [wr EXCEPT !.cancel = TRUE, !.ctxDone = TRUE, !.startRes = "error",
                    !.startOps = StartCalls(outcome), !.loops = 0]
    ELSE [wr EXCEPT !.cancel = TRUE, !.ctxDone = FALSE, !.startRes = "nil",
                    !.startOps = StartCalls(outcome), !.loops = 1,
                    !.wg = @ + 1, !.pc = "select"]

\* a consumer that is handed the newest delivery first
TakeDelivery_NewestFirst(q) == [d |-> q[Len(q)], rest |-> SubSeq(q, 1, Len(q) - 1)]

\* d := <-deliveries: the channel hands deliveries over oldest first
TakeDelivery(q) == [d |-> Head(q), rest |-> Tail(q)]

\* the branch after json.Unmarshal
AfterDecode(ok) == IF ok THEN "create" ELSE "nack"

\* a loop that acknowledges whatever repo.Create returned
AfterCreate_AlwaysAck(ok) == "ack"

\* the branch after repo.Create
AfterCreate(ok) == IF ok THEN "ack" ELSE "nack"

\* the requeue argument of d.Nack(false, false)
NackRequeue == FALSE

\* a loop that returns after it has negatively acknowledged a delivery
AfterNack_Return == "exited"

\* continue: after d.Nack the loop goes back to its select
AfterNack == "select"

\* Close that does not wait for the goroutine
WaitDone_NoWait(wr) == TRUE

\* wg.Wait() in Close returns
WaitDone(wr) == wr.wg = 0

\* case d, ok := <-deliveries, then json.Unmarshal (lines 85-95)
WorkerReceive ==
    /\ w.pc = "select" /\ MQOpen
    /\ queue # <<>> /\ inflight = <<>>
    /\ LET t == TakeDelivery(queue)
           r == Unmarshal(t.d)
       IN /\ queue' = t.rest
          /\ inflight' = <<t.d>>
          /\ w' = [w EXCEPT !.pc = AfterDecode(r.ok), !.msg = r.msg, !.have = TRUE,
                            !.decodeOk = r.ok, !.wrote = FALSE, !.writeOk = FALSE,
                            !.settles = 0, !.how = "none", !.requeued = FALSE]
    /\ UNCHANGED <<dirty, cache, markedBy, armed, store, clock, snd, get, app, env, sessions, del, rag, chk, ing, rank, cos>>

\* repo.Create (lines 97-101)
WorkerCreate ==
    /\ w.pc = "create"
    /\ \E ok \in StoreOutcomes :
         /\ store' = IF ok THEN Append(store, w.msg) ELSE store
         /\ w' = [w EXCEPT !.pc = AfterCreate(ok), !.wrote = TRUE, !.writeOk = ok]
    /\ UNCHANGED <<dirty, cache, markedBy, armed, queue, inflight, clock, snd, get, app, env, sessions, del, rag, chk, ing, rank, cos>>

\* d.Ack(false) (line 103)
WorkerAck ==
    /\ w.pc = "ack"
    /\ inflight' = <<>>
    /\ w' = [w EXCEPT !.pc = "select", !.settles = @ + 1, !.how = "ack", !.msg = None]
    /\ UNCHANGED <<dirty, cache, markedBy, armed, queue, store, clock, snd, get, app, env, sessions, del, rag, chk, ing, rank, cos>>

\* d.Nack(false, false) (lines 93, 99)
WorkerNack ==
    /\ w.pc = "nack"
    /\ inflight' = <<>>
    /\ queue' = IF NackRequeue THEN inflight \o queue ELSE queue
    /\ w' = [w EXCEPT !.pc = AfterNack, !.settles = @ + 1, !.how = "nack", !.msg = None,
                      !.requeued = NackRequeue, !.nacked = TRUE]
    /\ UNCHANGED <<dirty, cache, markedBy, armed, store, clock, snd, get, app, env, sessions, del, rag, chk, ing, rank, cos>>

\* case <-workerCtx.Done(), or the deliveries channel is closed: the goroutine
\* returns, wg.Done() (lines 78, 83-88)
WorkerExit ==
    /\ w.pc = "select"
    /\ w.ctxDone \/ ~MQOpen
    /\ w' = [w EXCEPT !.pc = "exited", !.wg = @ - 1]
    /\ UNCHANGED <<dirty, cache, markedBy, armed, queue, inflight, store, clock, snd, get, app, env, sessions, del, rag, chk, ing, rank, cos>>

\* ------------------------------------------------- bootstrap.New, App.Close
\* messageWorker.Start(ctx) in bootstrap.New; an error ends the process
AppNew ==
    /\ app.pc = "new"
    /\ \E outcome \in StartOutcomes :
         LET nw == Start(w, outcome) IN
         /\ w' = nw
         /\ app' = [app EXCEPT !.pc = IF nw.startRes = "error" THEN "failed" ELSE "serving"]
    /\ UNCHANGED <<dirty, cache, markedBy, armed, queue, inflight, store, clock, snd, get, env, sessions, del, rag, chk, ing, rank, cos>>

\* App.Close: a.Redis.Close()
AppCloseRedis ==
    /\ app.pc = "serving"
    /\ app' = [app EXCEPT !.pc = "redisClosed"]
    /\ UNCHANGED <<dirty, cache, markedBy, armed, queue, inflight, store, clock, snd, get, w, env, sessions, del, rag, chk, ing, rank, cos>>

\* MessagePersistWorker.Close: w.cancel()
AppCloseWorkerCancel ==
    /\ app.pc = "redisClosed"
    /\ w' = [w EXCEPT !.ctxDone = IF w.cancel THEN TRUE ELSE @]
    /\ app' = [app EXCEPT !.pc = "workerCancelled", !.mid = (inflight # <<>>)]
    /\ UNCHANGED <<dirty, cache, markedBy, armed, queue, inflight, store, clock, snd, get, env, sessions, del, rag, chk, ing, rank, cos>>

\* MessagePersistWorker.Close: w.wg.Wait() returns
AppCloseWorkerWait ==
    /\ app.pc = "workerCancelled"
    /\ WaitDone(w)
    /\ app' = [app EXCEPT !.pc = "workerClosed"]
    /\ UNCHANGED <<dirty, cache, markedBy, armed, queue, inflight, store, clock, snd, get, w, env, sessions, del, rag, chk, ing, rank, cos>>

\* App.Close: a.MQConn.Close(); the broker requeues what the connection left unsettled
AppCloseMQ ==
    /\ app.pc = "workerClosed"
    /\ app' = [app EXCEPT !.pc = "mqClosed"]
    /\ queue' = inflight \o queue
    /\ inflight' = <<>>
    /\ UNCHANGED <<dirty, cache, markedBy, armed, store, clock, snd, get, w, env, sessions, del, rag, chk, ing, rank, cos>>

\* App.Close: sqlDB.Close()
AppCloseDB ==
    /\ app.pc = "mqClosed"
    /\ app' = [app EXCEPT !.pc = "closed"]
    /\ UNCHANGED <<dirty, cache, markedBy, armed, queue, inflight, store, clock, snd, get, w, env, sessions, del, rag, chk, ing, rank, cos>>

\* ------------------------------------- Start and Close called by any owner
\* a further call of Start on the worker bootstrap.New made
StartAgain ==
    /\ app.pc \in {"serving", "failed"}
    /\ ~w.closing
    /\ env.starts < MaxStarts
    /\ \E outcome \in StartOutcomes : w' = Start(w, outcome)
    /\ env' = [env EXCEPT !.starts = @ + 1]
    /\ UNCHANGED <<dirty, cache, markedBy, armed, queue, inflight, store, clock, snd, get, app, sessions, del, rag, chk, ing, rank, cos>>

\* MessagePersistWorker.Close: if w.cancel != nil { w.cancel() } (lines 112-114)
WorkerCloseCancel ==
    /\ app.pc \in {"serving", "failed"}
    /\ ~w.closing
    /\ env.closes < MaxCloses
    /\ w' = [w EXCEPT !.ctxDone = IF w.cancel THEN TRUE ELSE @, !.closing = TRUE]
    /\ env' = [env EXCEPT !.closes = @ + 1]
    /\ UNCHANGED <<dirty, cache, markedBy, armed, queue, inflight, store, clock, snd, get, app, sessions, del, rag, chk, ing, rank, cos>>

\* MessagePersistWorker.Close: w.wg.Wait() returns (line 115)
WorkerCloseWait ==
    /\ w.closing
    /\ WaitDone(w)
    /\ w' = [w EXCEPT !.closing = FALSE]
    /\ UNCHANGED <<dirty, cache, markedBy, armed, queue, inflight, store, clock, snd, get, app, env, sessions, del, rag, chk, ing, rank, cos>>

\* ------------------------------------------------------------ environment
\* the process dies (crash, kill, exit) and is started again: every call and
\* the worker of the old process are gone, the broker requeues the unsettled
\* delivery, Redis, the broker and MySQL keep their contents
Restart ==
    /\ env.restarts < MaxRestarts
    /\ env' = [env EXCEPT !.restarts = @ + 1]
    /\ app' = [pc |-> "new", mid |-> FALSE]
    /\ w' = FreshWorker
    /\ queue' = inflight \o queue
    /\ inflight' = <<>>
    /\ snd' = [c \in Calls |-> IF snd[c].idx \in 1..Len(SendSteps)
                               THEN [snd[c] EXCEPT !.idx = SendDone, !.res = "aborted"]
                               ELSE snd[c]]
    /\ get' = [g \in Gets |-> IF get[g].pc \notin {"idle", "done"}
                              THEN Return([get[g] EXCEPT !.src = "none", !.msgs = <<>>], "aborted")
                              ELSE get[g]]
    /\ UNCHANGED <<dirty, cache, markedBy, armed, store, clock, sessions, del, rag, chk, ing, rank, cos>>

\* another producer leaves a payload that is no JSON message in the queue
PublishGarbage ==
    /\ env.foreign < MaxForeign
    /\ env' = [env EXCEPT !.foreign = @ + 1]
    /\ queue' = Append(queue, Garbage)
    /\ UNCHANGED <<dirty, cache, markedBy, armed, inflight, store, clock, snd, get, w, app, sessions, del, rag, chk, ing, rank, cos>>

\* ---------------------------------------------------------- specifications
Init ==
    /\ dirty = FALSE /\ cache = None /\ markedBy = {} /\ armed = {}
    /\ queue = <<>> /\ inflight = <<>> /\ store = <<>> /\ clock = 1
    /\ snd = [c \in Calls |-> IdleSend]
    /\ get = [g \in Gets |-> IdleGet]
    /\ w = FreshWorker
    /\ app = [pc |-> "new", mid |-> FALSE]
    /\ env = [foreign |-> 0, restarts |-> 0, starts |-> 0, closes |-> 0]
    /\ sessions = SessionRows
    /\ del = IdleDel
    /\ rag = EmptyRag
    /\ chk = IdleChunk
    /\ ing = IdleIngest
    /\ rank = IdleRank
    /\ cos = IdleCos

SendStep(c) ==
    \/ SendBegin(c) \/ SendMarkDirty(c) \/ SendDeleteHistory(c)
    \/ SendPublishUser(c) \/ SendComplete(c) \/ SendPublishAssistant(c)

GetStep(g) ==
    \/ GetBegin(g) \/ GetIsDirty1(g) \/ GetCacheGet(g)
    \/ GetList(g) \/ GetIsDirty2(g) \/ GetSet(g)

GetNext == \E g \in 1..MaxGets : GetStep(g)

WorkerNext == WorkerReceive \/ WorkerCreate \/ WorkerAck \/ WorkerNack \/ WorkerExit

CloseNext ==
    \/ AppCloseRedis \/ AppCloseWorkerCancel \/ AppCloseWorkerWait
    \/ AppCloseMQ \/ AppCloseDB

\* the cache protocol: writers and readers of one conversation while the
\* process serves requests and the worker persists
NextChat ==
    \/ AppNew \/ (\E c \in 1..MaxChatCalls : SendStep(c)) \/ GetNext
    \/ ExpireDirty \/ ExpireHistory
    \/ WorkerReceive \/ WorkerCreate \/ WorkerAck \/ WorkerNack

SpecChat == Init /\ [][NextChat]_vars

\* the delivery pipeline: concurrent calls, the queue, the worker, and the
\* process dying and starting again
NextPipeline ==
    \/ AppNew \/ (\E c \in 1..MaxCalls : SendStep(c))
    \/ WorkerReceive \/ WorkerCreate \/ WorkerAck \/ WorkerNack \/ Restart

SpecPipeline == Init /\ [][NextPipeline]_vars

\* the worker's whole life: start, deliveries, close, restart of the process
NextWorker ==
    \/ AppNew \/ (\E c \in 1..MaxChatCalls : SendStep(c)) \/ WorkerNext \/ CloseNext
    \/ Restart \/ PublishGarbage

SpecWorker == Init /\ [][NextWorker]_vars

\* the goroutine of the worker is scheduled: a step of its loop that stays
\* possible is taken
WorkerFair ==
    /\ WF_vars(WorkerReceive) /\ WF_vars(WorkerCreate)
    /\ WF_vars(WorkerAck) /\ WF_vars(WorkerNack)

SpecWorkerLive == Init /\ [][NextWorker]_vars /\ WorkerFair

\* the process starts over a messages table that already holds rows of the
\* conversation
InitHistory ==
    /\ dirty = FALSE /\ cache = None /\ markedBy = {} /\ armed = {}
    /\ queue = <<>> /\ inflight = <<>>
    /\ \E n \in 0..MaxPersisted : store = SubSeq(Persisted, 1, n)
    /\ clock = MaxPersisted + 1
    /\ snd = [c \in Calls |-> IdleSend]
    /\ get = [g \in Gets |-> IdleGet]
    /\ w = FreshWorker
    /\ app = [pc |-> "new", mid |-> FALSE]
    /\ env = [foreign |-> 0, restarts |-> 0, starts |-> 0, closes |-> 0]
    /\ sessions = SessionRows
    /\ del = IdleDel
    /\ rag = EmptyRag
    /\ chk = IdleChunk
    /\ ing = IdleIngest
    /\ rank = IdleRank
    /\ cos = IdleCos

\* readers of a conversation nobody writes to: GetHistory calls with any
\* limits, cache failures and cache expiry
NextHistory ==
    \/ AppNew \/ (\E g \in 1..MaxHistoryGets : GetStep(g)) \/ ExpireHistory

SpecHistory == InitHistory /\ [][NextHistory]_vars

StreamStep(c) ==
    \/ StreamBegin(c) \/ SendMarkDirty(c) \/ SendDeleteHistory(c)
    \/ SendPublishUser(c) \/ StreamCancel(c) \/ StreamChunk(c) \/ StreamAbort(c)
    \/ StreamEnd(c) \/ SendPublishAssistant(c)

\* a streaming call, its caller, and the worker
NextStream ==
    \/ AppNew \/ (\E c \in 1..MaxStreamCalls : StreamStep(c))
    \/ WorkerReceive \/ WorkerCreate \/ WorkerAck \/ WorkerNack

SpecStream == Init /\ [][NextStream]_vars

DelStep == DelBegin \/ DelMessages \/ DelSessionRow \/ DelCache

\* a conversation is deleted while a call writes to it, a call reads it and
\* the worker persists
NextDelete ==
    \/ AppNew \/ (\E c \in 1..MaxDeleteCalls : SendStep(c))
    \/ (\E g \in 1..MaxDeleteGets : GetStep(g))
    \/ WorkerReceive \/ WorkerCreate \/ WorkerAck \/ WorkerNack
    \/ DelStep

SpecDelete == Init /\ [][NextDelete]_vars

\* calls of the RAG service by two users, one after another
NextRag ==
    \/ AppNew \/ RagCreateSession \/ RagIngest \/ RagAsk
    \/ RagDeleteDocument \/ RagDeleteSession

SpecRag == Init /\ [][NextRag]_vars

\* chunkText called with any text, size and overlap
InitChunk ==
    /\ dirty = FALSE /\ cache = None /\ markedBy = {} /\ armed = {}
    /\ queue = <<>> /\ inflight = <<>> /\ store = <<>> /\ clock = 1
    /\ snd = [c \in Calls |-> IdleSend]
    /\ get = [g \in Gets |-> IdleGet]
    /\ w = FreshWorker
    /\ app = [pc |-> "new", mid |-> FALSE]
    /\ env = [foreign |-> 0, restarts |-> 0, starts |-> 0, closes |-> 0]
    /\ sessions = SessionRows
    /\ del = IdleDel
    /\ rag = EmptyRag
    /\ chk \in ChunkInputs
    /\ ing = IdleIngest
    /\ rank = IdleRank
    /\ cos = IdleCos

NextChunk == ChunkApply

SpecChunk == InitChunk /\ [][NextChunk]_vars

InitRank ==
    /\ dirty = FALSE /\ cache = None /\ markedBy = {} /\ armed = {}
    /\ queue = <<>> /\ inflight = <<>> /\ store = <<>> /\ clock = 1
    /\ snd = [c \in Calls |-> IdleSend]
    /\ get = [g \in Gets |-> IdleGet]
    /\ w = FreshWorker
    /\ app = [pc |-> "new", mid |-> FALSE]
    /\ env = [foreign |-> 0, restarts |-> 0, starts |-> 0, closes |-> 0]
    /\ sessions = SessionRows
    /\ del = IdleDel
    /\ rag = EmptyRag
    /\ chk = IdleChunk
    /\ ing = IdleIngest
    /\ rank \in RankInputs
    /\ cos = IdleCos

NextRank == RankApply \/ AskRank

SpecRank == InitRank /\ [][NextRank]_vars

InitCos ==
    /\ dirty = FALSE /\ cache = None /\ markedBy = {} /\ armed = {}
    /\ queue = <<>> /\ inflight = <<>> /\ store = <<>> /\ clock = 1
    /\ snd = [c \in Calls |-> IdleSend]
    /\ get = [g \in Gets |-> IdleGet]
    /\ w = FreshWorker
    /\ app = [pc |-> "new", mid |-> FALSE]
    /\ env = [foreign |-> 0, restarts |-> 0, starts |-> 0, closes |-> 0]
    /\ sessions = SessionRows
    /\ del = IdleDel
    /\ rag = EmptyRag
    /\ chk = IdleChunk
    /\ ing = IdleIngest
    /\ rank = IdleRank
    /\ cos \in CosInputs

NextCos == CosApply

SpecCos == InitCos /\ [][NextCos]_vars

\* one worker whose owner calls Start and Close in any order while messages
\* are published
NextLifecycle ==
    \/ AppNew \/ StartAgain \/ WorkerCloseCancel \/ WorkerCloseWait
    \/ (\E c \in 1..MaxChatCalls : SendStep(c)) \/ WorkerNext

SpecLifecycle == Init /\ [][NextLifecycle]_vars

IngestStep == IngestBegin \/ IngestEmbed \/ IngestCreate

\* an Ingest, call by call, while documents and sessions are deleted
NextIngest ==
    \/ AppNew \/ RagCreateSession \/ IngestStep
    \/ RagDeleteDocument \/ RagDeleteSession

SpecIngest == Init /\ [][NextIngest]_vars

Next ==
    \/ NextChat \/ NextPipeline \/ NextWorker \/ NextHistory \/ NextStream
    \/ NextDelete \/ NextRag \/ NextChunk \/ NextIngest \/ NextRank
    \/ NextCos \/ NextLifecycle

Spec == Init /\ [][Next]_vars

\* ------------------------------------------------------------------ claims
\* C1 as stated: a GetHistory call that starts while the marker set by a
\* SendMessage that has also deleted the cache entry is still present never
\* returns a cache hit.
C1_StartedBeforeExpiryNeverHits ==
    \A g \in Gets : get[g].src = "cache" => ~get[g].startArmed

\* C1 as amended: a GetHistory call whose IsDirty check is answered while the
\* marker is present never returns a cache hit; it returns the store's result.
C1_CheckedWhileMarkedReadsStore ==
    \A g \in Gets :
        /\ get[g].src = "cache" => ~get[g].check1
        /\ get[g].check1 /\ get[g].pc = "done" /\ get[g].res = "ok" => get[g].src = "store"
        /\ get[g].check1 => get[g].pc # "cacheget"

C1_Witness ==
    \E g \in Gets :
        /\ get[g].pc = "done" /\ get[g].res = "ok" /\ get[g].src = "store"
        /\ get[g].startArmed /\ get[g].check1

\* C2: a GetHistory call that read the store before a SendMessage set the
\* marker never writes that snapshot into the cache after that marker expired.
C2_NoStaleWriteBack ==
    \A g \in Gets : ~get[g].wroteStale

\* C3 as stated: no cache hit returns a list that was read from the store while
\* a published message was not yet written to the store.
C3_NoSnapshotOfOutstandingWriteServed ==
    \A g \in Gets : get[g].src = "cache" => ~get[g].hitDuring

\* C3 as amended: a list read from the store during an outstanding write is
\* cached, and later served, only by a call whose IsDirty check after the read
\* found the marker absent; a call that finds the marker there caches nothing.
C3_CachedOnlyWhenMarkerAbsentAtCheck ==
    /\ cache # None => ~cache.check2
    /\ \A g \in Gets : get[g].src = "cache" => ~get[g].hitCheck
    /\ \A g \in Gets : get[g].pc = "set" => ~get[g].check2

C3_Witness ==
    \E g \in Gets : get[g].src = "cache" /\ get[g].hitDuring /\ ~get[g].hitCheck

\* the payloads the broker holds, unsettled deliveries first
Pending == inflight \o queue

Positions(seq, x) == {i \in DOMAIN seq : seq[i] = x}

Before(seq, x, y) == \A i \in Positions(seq, x), j \in Positions(seq, y) : i < j

\* C4: a call publishes nothing before it has called MarkDirty and then
\* DeleteHistory: the trace of every call that reached a publish starts with
\* MarkDirty, DeleteHistory, and a call with a message at the broker or in the
\* store made both calls first.
C4_MarkThenDeleteThenPublish ==
    \A c \in Calls :
        LET t == snd[c].trace IN
        /\ \A i \in DOMAIN t :
             t[i] \in {"PublishUser", "PublishAssistant", "Complete"} =>
                 i > 2 /\ t[1] = "MarkDirty" /\ t[2] = "DeleteHistory"
        /\ snd[c].upub # "none" => Len(t) >= 3 /\ SubSeq(t, 1, 3) = <<"MarkDirty", "DeleteHistory", "PublishUser">>

C4_Witness ==
    \E c \in Calls :
        /\ snd[c].upub = "ok"
        /\ snd[c].user # None /\ Marshal(snd[c].user) \in Range(queue)
        /\ c \in armed

\* C5: when publishing the user message fails the call returns EnqueueFailed,
\* the gateway is never called by it and it publishes no assistant message.
C5_UserPublishFailureAborts ==
    \A c \in Calls :
        snd[c].upub = "failed" =>
            /\ snd[c].res = "EnqueueFailed"
            /\ snd[c].idx = SendDone
            /\ "Complete" \notin Range(snd[c].trace)
            /\ "PublishAssistant" \notin Range(snd[c].trace)
            /\ snd[c].asst = None
            /\ \A i \in DOMAIN Pending : Pending[i].body.call # c
            /\ \A i \in DOMAIN store : store[i].call # c

C5_Witness ==
    \E c \in Calls : snd[c].upub = "failed" /\ snd[c].res = "EnqueueFailed"

\* C6: a call publishes its user message before its assistant message, the
\* worker writes them in that order, and the stored history never shows the
\* user message of a call after that call's assistant message.
C6_UserBeforeAssistant ==
    \A c \in Calls :
        LET u == snd[c].user
            a == snd[c].asst
        IN  a # None =>
              /\ "PublishAssistant" \in Range(snd[c].trace) =>
                     Before(snd[c].trace, "PublishUser", "PublishAssistant")
                     /\ "PublishUser" \in Range(snd[c].trace)
              /\ Before(Pending, Marshal(u), Marshal(a))
              /\ Before(store, u, a)
              /\ Before(ListBySessionID(store, 0), u, a)
              /\ a \in Range(store) => Marshal(u) \notin Range(Pending)

C6_Witness ==
    \E c \in Calls :
        /\ snd[c].asst # None
        /\ snd[c].user \in Range(store) /\ snd[c].asst \in Range(store)
        /\ \E d \in Calls : d # c /\ snd[d].user # None /\ snd[d].user \in Range(store)

\* C7: a delivery the loop has taken is settled exactly once before the next is
\* taken: acknowledged exactly when it decoded and the store write succeeded,
\* otherwise negatively acknowledged without requeue; no store write is tried
\* after a decode failure.
C7_SettledOnceAckIffStored ==
    /\ Len(inflight) <= 1
    /\ w.pc \in {"create", "ack", "nack"} => w.settles = 0 /\ Len(inflight) = 1
    /\ w.pc \in {"select", "exited"} /\ w.have =>
         /\ w.settles = 1 /\ inflight = <<>>
         /\ w.how \in {"ack", "nack"}
         /\ w.how = "ack" <=> (w.decodeOk /\ w.wrote /\ w.writeOk)
         /\ w.how = "nack" => ~w.requeued
    /\ w.pc = "ack" => w.decodeOk /\ w.writeOk
    /\ w.pc = "nack" => ~(w.decodeOk /\ w.writeOk)
    /\ ~w.decodeOk => ~w.wrote
    /\ ~w.requeued

C7_Witness ==
    /\ w.pc = "select" /\ w.have /\ w.settles = 1
    /\ w.how = "nack" /\ ~w.decodeOk /\ ~w.wrote
    /\ store # <<>>

\* C8: a delivery is acknowledged only after its row was written, and a message
\* published once is never more than one row of the store.
C8_OneRowPerMessage ==
    /\ w.pc = "ack" => w.msg \in Range(store)
    /\ \A i, j \in DOMAIN store : i # j => store[i] # store[j]

\* C9: once the worker's Close has returned no delivery is between receipt and
\* its ack or nack, and the queue connection and the database are closed only
\* then.
C9_CloseWaitsForInFlightDelivery ==
    app.pc \in {"workerClosed", "mqClosed", "closed"} =>
        /\ w.pc \in {"none", "exited"}
        /\ w.wg = 0
        /\ inflight = <<>>
        /\ w.have => w.settles = 1

C9_Witness ==
    /\ app.pc = "closed" /\ app.mid
    /\ w.pc = "exited" /\ w.have /\ w.settles = 1

\* C10: a Start whose channel, queue declaration or consume call fails returns
\* the error, starts no consumer loop and makes each broker call at most once;
\* bootstrap.New fails with it.
C10_StartFailsFast ==
    w.startRes = "error" =>
        /\ w.loops = 0 /\ w.pc = "none" /\ w.wg = 0
        /\ w.ctxDone
        /\ \A i, j \in DOMAIN w.startOps : i # j => w.startOps[i] # w.startOps[j]
        /\ app.pc = "failed"

C10_Witness ==
    /\ w.startRes = "error" /\ app.pc = "failed"
    /\ w.startOps = <<"Channel", "QueueDeclare", "Consume", "ch.Close">>

\* Start has launched the loop and nothing has cancelled it or closed its
\* deliveries channel
Running == w.loops = 1 /\ ~w.ctxDone /\ MQOpen

\* the payloads a call or another producer can leave in the queue
Payloads ==
    {Garbage} \cup {Marshal(Message(c, r, t)) :
                       c \in 1..MaxChatCalls, r \in {"user", "assistant"},
                       t \in 1..(2 * MaxChatCalls)}

\* C11: the loop does not end because a delivery failed to decode or to be
\* written: once the worker has negatively acknowledged a delivery, every
\* payload that is in the queue while the worker runs uncancelled is settled
\* (or the worker is cancelled or the process ends first).
C11_KeepsReceivingAfterNack ==
    \A p \in Payloads :
        (w.nacked /\ Running /\ p \in Range(queue))
            ~> (~Running \/ (p \notin Range(Pending) /\ w.pc = "select"))

C11_Witness ==
    /\ w.nacked /\ Running /\ w.pc = "select" /\ w.wg = 1
    /\ w.have /\ w.how = "ack" /\ queue = <<>>

\* the `limit` newest rows, oldest first (every row when limit is not positive)
MostRecent(rows, limit) ==
    LET asc == OrderByCreatedAsc(rows)
        lim == IF limit <= 0 THEN Len(asc) ELSE Min(limit, Len(asc))
    IN SubSeq(asc, Len(asc) - lim + 1, Len(asc))

\* C12: a GetHistory call that returns a list returns the `limit` most recent
\* messages of the conversation, oldest first, whether the list came from a
\* cache hit or from the store.
C12_ReturnsMostRecentLimit ==
    \A g \in Gets :
        get[g].pc = "done" /\ get[g].res = "ok" =>
            get[g].msgs = MostRecent(store, get[g].limit)

\* C13: two GetHistory calls with the same limit on a conversation nobody
\* writes to return the same list, whatever the cache did in between.
C13_SameLimitSameList ==
    \A g, h \in Gets :
        /\ get[g].pc = "done" /\ get[g].res = "ok"
        /\ get[h].pc = "done" /\ get[h].res = "ok"
        /\ get[g].limit = get[h].limit
        => get[g].msgs = get[h].msgs

\* the messages of call c that the broker or the store holds
Held(c, role) ==
    {m \in Range(store) : m.call = c /\ m.role = role}
    \cup {Pending[i].body : i \in {j \in DOMAIN Pending :
              Pending[j].fmt = "json" /\ Pending[j].body.call = c
              /\ Pending[j].body.role = role}}

\* C14: when the gateway call fails after the user message was published, the
\* call returns the gateway's error and publishes no assistant message; the
\* user message leaves the broker only when the worker settles it (an ack
\* means it is a row of the store), and while the worker runs it is persisted
\* unless the worker's own store write fails and the delivery is dropped.
C14_GatewayFailureKeepsUserQueued ==
    /\ [](\A c \in Calls :
            snd[c].gw = "failed" =>
                /\ snd[c].res = "GatewayError" /\ snd[c].idx = SendDone
                /\ snd[c].upub = "ok" /\ snd[c].asst = None
                /\ "PublishAssistant" \notin Range(snd[c].trace)
                /\ Held(c, "assistant") = {})
    /\ [][\A c \in Calls :
            /\ snd[c].gw' = "failed"
            /\ Marshal(snd[c].user) \in Range(Pending)
            /\ Marshal(snd[c].user) \notin Range(Pending')
            => /\ w.pc \in {"ack", "nack"}
               /\ w.pc = "ack" => snd[c].user \in Range(store)]_vars
    /\ \A c \in 1..MaxChatCalls :
            (snd[c].gw = "failed" /\ Running /\ Marshal(snd[c].user) \in Range(Pending))
                ~> \/ ~Running
                   \/ snd[c].user \in Range(store)
                   \/ Marshal(snd[c].user) \notin Range(Pending) /\ w.nacked

C14_Witness ==
    \E c \in Calls :
        /\ snd[c].gw = "failed" /\ snd[c].res = "GatewayError"
        /\ snd[c].user \in Range(store)
        /\ Marshal(snd[c].user) \notin Range(Pending)

\* the assistant publish of call c returned an error
AssistantPublishFailed(c) ==
    /\ snd[c].gw = "ok" /\ snd[c].res = "EnqueueFailed"
    /\ "PublishAssistant" \in Range(snd[c].trace)

\* C15: when publishing the assistant message fails after a successful
\* completion the call returns EnqueueFailed, the result it hands to its caller
\* still holds the generated answer, and no GetHistory result, the store or the
\* broker ever holds that answer.
C15_AnswerOnlyInResponse ==
    \A c \in Calls :
        AssistantPublishFailed(c) =>
            /\ snd[c].res = "EnqueueFailed"
            /\ snd[c].asst \in Range(snd[c].out)
            /\ Held(c, "assistant") = {}
            /\ \A g \in Gets : snd[c].asst \notin Range(get[g].msgs)

\* C16: a streaming call that its caller cancelled (ctx cancelled, or onChunk
\* returned an error) after at least one chunk of the answer had arrived has
\* tried to publish the user message and an assistant message when it returns.
C16_CancelledStreamPublishesBoth ==
    \A c \in Calls :
        /\ snd[c].kind = "stream" /\ snd[c].idx = SendDone
        /\ snd[c].cut # "none" /\ snd[c].got >= 1
        => /\ "PublishUser" \in Range(snd[c].trace)
           /\ "PublishAssistant" \in Range(snd[c].trace)

\* C17: once DeleteSession has returned nil the store holds no message of the
\* conversation and the cache holds no entry for it, from then on.
C17_DeletedLeavesNothing ==
    del.res = "ok" => store = <<>> /\ cache = None

\* C18: no call deletes a document or a chunk that another user created, and
\* no Ask scores or returns a chunk of a document another user created.
C18_OnlyOwnDocuments ==
    /\ \A d \in rag.last.docs : d.user = rag.last.user
    /\ \A k \in rag.last.chunks : k.owner = rag.last.user
    /\ \A k \in rag.last.scored \cup rag.last.selected : k.owner = rag.last.user

\* ceil(a / b) for b > 0
CeilDiv(a, b) == (a + b - 1) \div b

\* size and overlap are those the chunking properties are stated for
ValidChunking == chk.size >= 1 /\ 0 <= chk.overlap /\ chk.overlap < chk.size

\* C19: for size >= 1, 0 <= overlap < size and a text of L >= 1 codepoints
\* chunkText returns exactly ceil((L - overlap) / (size - overlap)) chunks, the
\* k-th one starting at offset (k - 1) * (size - overlap).
C19_ChunkCountAndOffsets ==
    chk.done /\ ValidChunking /\ Len(chk.text) >= 1 =>
        LET step == chk.size - chk.overlap IN
        /\ Len(chk.out) = CeilDiv(Len(chk.text) - chk.overlap, step)
        /\ \A k \in DOMAIN chk.out :
             /\ chk.out[k] # <<>>
             /\ chk.text[(k - 1) * step + 1] = chk.out[k][1]
             /\ chk.text = [i \in 1..Len(chk.text) |-> i] =>
                    chk.out[k][1] = (k - 1) * step + 1

\* the part of a chunk after its first n codepoints
DropFirst(chunk, n) ==
    IF n >= Len(chunk) THEN <<>> ELSE SubSeq(chunk, n + 1, Len(chunk))

\* the first chunk whole, then of every later chunk the part after overlap
RECURSIVE Reconstruct(_, _)
Reconstruct(chunks, overlap) ==
    IF chunks = <<>> THEN <<>>
    ELSE IF Len(chunks) = 1 THEN chunks[1]
    ELSE Reconstruct(SubSeq(chunks, 1, Len(chunks) - 1), overlap)
             \o DropFirst(chunks[Len(chunks)], overlap)

\* C20: for size >= 1 and 0 <= overlap < size the first chunk followed by the
\* part of every later chunk after its first overlap codepoints is the input,
\* and every chunk has between 1 and size codepoints.
C20_ReconstructsInput ==
    chk.done /\ ValidChunking =>
        /\ Reconstruct(chk.out, chk.overlap) = chk.text
        /\ \A k \in DOMAIN chk.out :
             Len(chk.out[k]) >= 1 /\ Len(chk.out[k]) <= chk.size

C20_Witness ==
    /\ chk.done /\ chk.size = 10 /\ chk.overlap = 2
    /\ chk.text = [i \in 1..25 |-> i]
    /\ Len(chk.out) = 4 /\ Len(chk.out[4]) < chk.overlap
    /\ Reconstruct(chk.out, chk.overlap) = chk.text

\* C21: an Ingest in which the answer to some batch had another size than the
\* batch does not succeed and writes no chunk row; an Ingest that succeeds has
\* stored every chunk with the embedding the gateway returned for that chunk.
C21_BatchMismatchFailsIngest ==
    ing.pc = "done" /\ ing.doc # 0 =>
        /\ ing.got # ing.sent =>
              /\ ing.res # "ok"
              /\ ChunksOfDocs({ing.doc}) = {}
        /\ ing.res = "ok" =>
              \A k \in ChunksOfDocs({ing.doc}) : k.emb = k.idx

\* C22: an Ask whose resolved scope is empty returns NoDocuments, one whose
\* documents have no chunk returns NoChunks (unless the store fails), and in
\* neither case is the embedding or the completion gateway called.
C22_EmptyScopeCallsNoGateway ==
    rag.last.op = "Ask" /\ ChunksOfDocs(rag.last.scope) = {} =>
        /\ ~rag.last.embed /\ ~rag.last.complete
        /\ rag.last.res \in {"StoreError",
                              IF rag.last.scope = {} THEN "NoDocuments" ELSE "NoChunks"}

C22_Witness ==
    /\ rag.last.op = "Ask" /\ rag.last.res = "NoChunks"
    /\ rag.last.scope # {} /\ rag.chunks # {}

\* the ids of the candidates returned
Chosen == {rank.out[i].id : i \in 1..Len(rank.out)}

\* C23: top-K selection returns min(K, candidates) items (none for K <= 0),
\* in non-increasing order of score, and leaves out no candidate that scores
\* higher than a returned one; an Ask with K <= 0 ranks with K = 5.
C23_TopKSizeAndOrder ==
    rank.done =>
        /\ rank.topK = (IF rank.k <= 0 /\ rank.via = "Ask" THEN defaultTopK ELSE rank.k)
        /\ Len(rank.out) = (IF rank.topK <= 0 THEN 0
                             ELSE Min(rank.topK, Len(rank.scored)))
        /\ Cardinality(Chosen) = Len(rank.out)
        /\ \A i \in 1..Len(rank.out) : rank.out[i] = rank.scored[rank.out[i].id]
        /\ \A i, j \in 1..Len(rank.out) :
              i < j => rank.out[i].score >= rank.out[j].score
        /\ \A c \in 1..Len(rank.scored), i \in 1..Len(rank.out) :
              c \notin Chosen => rank.scored[c].score <= rank.out[i].score

C23_Witness ==
    /\ rank.done /\ rank.via = "Ask" /\ rank.k <= 0 /\ rank.topK = defaultTopK
    /\ Len(rank.scored) = MaxCandidates /\ Len(rank.out) = defaultTopK
    /\ rank.scored[1].score < rank.scored[MaxCandidates].score

\* C24: candidates of equal score come out in the order of the scan, and the
\* earlier one is the one kept when only one of them fits in the top K.
C24_StableRanking ==
    rank.done =>
        /\ \A i, j \in 1..Len(rank.out) :
              i < j /\ rank.out[i].score = rank.out[j].score
                  => rank.out[i].id < rank.out[j].id
        /\ \A c \in 1..Len(rank.scored), i \in 1..Len(rank.out) :
              c \notin Chosen /\ rank.scored[c].score = rank.out[i].score
                  => rank.out[i].id < c

AllZero(v) == \A i \in 1..Len(v) : v[i] = 0

\* a stored embedding that json.Unmarshal reports an error for
Unparseable(t) ==
    \/ t.form = "invalid"
    \/ t.form = "array" /\ \E i \in 1..Len(t.elems) : t.elems[i].kind # "number"

\* C25: cosineSimilarity never divides by zero and returns 0 for vectors of
\* different lengths, an empty vector and an all-zero vector; a chunk whose
\* stored embedding is empty or unparseable scores 0.
C25_ZeroForIncomparable ==
    cos.done =>
        /\ ~cos.out.fault
        /\ ( \/ Len(cos.queryEmb) # Len(cos.vec)
             \/ AllZero(cos.queryEmb) \/ AllZero(cos.vec) ) => cos.out = Zero
        /\ cos.stored.form = "empty" \/ Unparseable(cos.stored) => cos.out = Zero

\* a step in which a call of Start returns
StartReturns ==
    \/ env'.starts # env.starts
    \/ app.pc = "new" /\ app'.pc # "new"

\* C27: whenever a call of Start returns nil, a consumer loop of the worker
\* exists (it is running or draining).
C27_StartNilMeansLoop ==
    [][StartReturns /\ w'.startRes = "nil" =>
          w'.pc \in {"select", "create", "ack", "nack"}]_vars

\* the errors SendMessage and StreamMessage return before the user message is
\* built
Rejections == {"InvalidInput", "MessageEmpty", "SessionNotFound", "LLMConfig", "StoreError"}

\* C26: a call rejected in validation has set no marker, deleted no cache
\* entry, published nothing and not called the gateway, and the step that
\* rejects it leaves the marker, the cache, the queue and the store as they were.
C26_RejectedHasNoSideEffect ==
    /\ [](\A c \in Calls : snd[c].res \in Rejections =>
             /\ snd[c].trace = <<>> /\ snd[c].upub = "none" /\ snd[c].gw = "none"
             /\ c \notin markedBy /\ c \notin armed
             /\ \A i \in 1..Len(queue) : queue[i].body.call # c)
    /\ [][\A c \in Calls : snd[c].res = "none" /\ snd'[c].res \in Rejections =>
             UNCHANGED <<dirty, cache, markedBy, armed, queue, inflight, store>>]_vars

C26_Witness ==
    \E c \in Calls :
        /\ snd[c].res = "LLMConfig"
        /\ \E d \in Calls : snd[d].res = "ok" /\ dirty

\* the turns of the calls 1..d that returned successfully, oldest first
RECURSIVE ReturnedTurns(_)
ReturnedTurns(d) ==
    IF d = 0 THEN <<>>
    ELSE ReturnedTurns(d - 1) \o (IF snd[d].res = "ok" THEN snd[d].out ELSE <<>>)

\* a step in which call c builds its prompt
BuildsPrompt(c) == snd[c].idx = 0 /\ snd'[c].idx = 1

\* C28 as stated: the prompt a call builds holds, in order, the turns of the
\* earlier calls that had returned successfully (the latest maxContext of
\* them), however far the worker has come.
C28_PromptHoldsReturnedTurns ==
    [][\A c \in Calls : BuildsPrompt(c) =>
          LET turns == MostRecent(ReturnedTurns(Len(snd)), maxContext)
              at(m) == CHOOSE i \in 1..Len(snd'[c].prompt) : snd'[c].prompt[i] = m
          IN /\ \A i \in 1..Len(turns) : turns[i] \in Range(snd'[c].prompt)
             /\ \A i, j \in 1..Len(turns) : i < j => at(turns[i]) < at(turns[j])]_vars

\* C28, amended: the prompt a call builds is the system message, the latest
\* maxContext rows the messages table holds at that moment, oldest first, and
\* the call's own user message.
C28_PromptHoldsPersistedRows ==
    [][\A c \in Calls : BuildsPrompt(c) =>
          snd'[c].prompt = <<SystemMessage>> \o MostRecent(store, maxContext)
                               \o <<snd'[c].user>>]_vars

C28_Witness ==
    \E c, d \in Calls :
        /\ snd[d].res = "ok" /\ snd[c].idx = 1
        /\ Len(snd[c].prompt) = maxContext + 2
        /\ snd[c].prompt[2] = snd[d].out[1]

C29_NoOrphanChunks ==
    \A k \in rag.chunks : \E d \in rag.docs : d.id = k.doc

====
